---- MODULE Spec2Model ----
(***************************************************************************)
(* Poche (game/src/main.rs): tables, sessions, players and cards of a Bevy *)
(* app.  One frame runs the chained Update systems in order, a sync point  *)
(* (apply_deferred) after each; the key-press systems are not ordered      *)
(* against the chain and their commands are applied at the next sync.      *)
(*                                                                         *)
(* Entities: table and session t are both named t (one session per table), *)
(* player k of table t is <<t, k>>, the card spawned i-th into session t   *)
(* is <<t, i>> (i from 0).  Components are functions over the spawned      *)
(* entities; an absent component is None / NoPlayer / FALSE.               *)
(* Transform is its translation.y in thousandths (the unit of the deal     *)
(* sort key); time is counted in ticks of 1/TicksPerSecond s.              *)
(***************************************************************************)
EXTENDS Integers, Sequences, FiniteSets, TLC

\* ---------------------------------------------------------------- bounds
\* tables that setup spawns
MaxTables == 2
\* players of all tables together
MaxSeats == 5
\* suits and ranks of a deck (the first of Card::get_new_deck's)
NumSuits == 3
NumRanks == 2
\* clock ticks per second of elapsed time
TicksPerSecond == 2
\* key presses of a run
MaxKeyPresses == 1
\* rotations among the iteration orders of a hash container
MaxRot == 1
\* cards handed to the classifier alone
ClassifyCards == 2

\* ------------------------------------------------------------- constants
\* table_position.y + table half_height + card half_size.y = 1.0025
SurfaceY == 1002
\* 0.01 per stacked card
StackStep == 10
\* table_position.y + half_height + half_length / 2 = 1.125
PlayerY == 1125
\* progress >= 0.99
RestPct == 99

None == -1
NoPlayer == <<0, 0>>

Min(a, b) == IF a < b THEN a ELSE b

\* ------------------------------------------------------------- sequences
Reverse(s) == [i \in 1..Len(s) |-> s[Len(s) + 1 - i]]

Rot(s, k) == [i \in 1..Len(s) |-> s[((i - 1 + k) % Len(s)) + 1]]

Range(s) == {s[i] : i \in 1..Len(s)}

\* An iteration order of a hash container holding the elements of s: the
\* order is unspecified, h = <<k, rev>> picks one.
HashOrders == (0..MaxRot) \X BOOLEAN

Permute(s, h) ==
    IF s = <<>> THEN s
    ELSE Rot(IF h[2] THEN Reverse(s) ELSE s, h[1] % Len(s))

\* itertools sorted_by_key: a stable sort of s by the key f[x], ascending.
RECURSIVE sorted_by_key(_, _)
sorted_by_key(s, f) ==
    IF s = <<>> THEN <<>>
    ELSE LET init == sorted_by_key(SubSeq(s, 1, Len(s) - 1), f)
             x == s[Len(s)]
             n == Cardinality({i \in 1..Len(init) : f[init[i]] <= f[x]})
         IN SubSeq(init, 1, n) \o <<x>> \o SubSeq(init, n + 1, Len(init))

\* ----------------------------------------------------------------- cards
AllSuits == <<"Spades", "Hearts", "Diamonds", "Clubs">>

AllRanks == <<"Ace", "Two", "Three", "Four", "Five", "Six", "Seven",
              "Eight", "Nine", "Ten", "Jack", "Queen", "King">>

DeckSize == NumSuits * NumRanks

\* A valuation with the ace low (not the program's).
RankValue_AceLow(rank) ==
    IF rank = "Ace" THEN 1
    ELSE 1 + (CHOOSE i \in 1..13 : AllRanks[i] = rank)

\* A valuation that gives every rank the same value (not the program's).
RankValue_Flat(rank) == 10

RankValue(rank) ==
    CASE rank = "Two" -> 2
      [] rank = "Three" -> 3
      [] rank = "Four" -> 4
      [] rank = "Five" -> 5
      [] rank = "Six" -> 6
      [] rank = "Seven" -> 7
      [] rank = "Eight" -> 8
      [] rank = "Nine" -> 9
      [] rank = "Ten" -> 10
      [] rank = "Jack" -> 11
      [] rank = "Queen" -> 12
      [] rank = "King" -> 13
      [] rank = "Ace" -> 14

\* A deck whose cards are all of the first suit (not the program's).
get_new_deck_one_suit ==
    [i \in 1..DeckSize |->
        [suit |-> AllSuits[1],
         rank |-> AllRanks[((i - 1) % NumRanks) + 1]]]

\* Card::get_new_deck: suit-major, ranks Ace first.
get_new_deck ==
    [i \in 1..DeckSize |->
        [suit |-> AllSuits[((i - 1) \div NumRanks) + 1],
         rank |-> AllRanks[((i - 1) % NumRanks) + 1]]]

\* The Card component of card entity c (never changed after the spawn).
Card(c) == get_new_deck[c[2] + 1]

\* ----------------------------------------------------------------- state
VARIABLES
    stage,               \* the chained system that runs next in this frame
    spawn_table_events,  \* Events<SpawnTableEvent>: num_players each
    spawn_deck_events,   \* Events<SpawnDeckEvent>: session_id each
    deal_cards_events,   \* Events<DealCardsEvent> not yet read
    session,             \* Session component: table_id, player_ids, card_ids
    needs_dealer,        \* tables carrying NeedsDealer
    dealer,              \* players carrying Dealer
    in_deck,             \* InDeck.index_from_bottom, or None
    in_hand,             \* InHand.index_from_left, or None
    belongs_to_player,   \* BelongsToPlayer, or NoPlayer
    played,              \* Played
    trump,               \* Trump
    behaviour,           \* CardPositioningBehaviour, or "None"
    travel_time,         \* ticks elapsed since TravelTime.start_time, or None
    sleeping,            \* Sleeping
    transform_y,         \* Transform.translation.y
    keys_left,           \* key presses the run may still make
    pressed,             \* keys whose just_pressed was handled this frame
    pending,             \* commands of key-press systems awaiting the sync
    dealt_log,           \* what handle_deal_cards_events logged this frame
    shuffled             \* sessions a shuffle-back was ever applied to

world == <<session, needs_dealer, dealer>>

flags == <<in_deck, in_hand, belongs_to_player, played, trump>>

motion == <<travel_time, sleeping, transform_y>>

events == <<spawn_table_events, spawn_deck_events, deal_cards_events>>

keys == <<keys_left, pressed>>

vars == <<stage, events, world, flags, behaviour, motion, keys, pending,
          dealt_log, shuffled>>

Stages == <<"spawn_table", "spawn_deck", "dealer", "deal", "classify",
            "deck_pos", "hand_pos", "frame_end">>

Sessions == DOMAIN session

Cards == DOMAIN in_deck

PlayersOf(t) == Range(session[t].player_ids)

CardsOf(t) == Range(session[t].card_ids)

\* ------------------------------------------------------ deferred commands
\* A system's Commands are a batch of component writes, applied in order at
\* the sync point after the system: per component, the entities written
\* and the value each ends with (None / NoPlayer / FALSE: removed).
NoCommands ==
    [in_deck |-> <<>>, in_hand |-> <<>>, belongs_to_player |-> <<>>,
     played |-> <<>>, trump |-> <<>>, travel_time |-> <<>>,
     sleeping |-> <<>>]

\* f after the writes w.
Apply(f, w) == [c \in DOMAIN f |-> IF c \in DOMAIN w THEN w[c] ELSE f[c]]

\* Writes w1, then writes w2 (the later write of an entity wins).
Then(w1, w2) == w2 @@ w1

Seq2(a, b) ==
    [in_deck |-> Then(a.in_deck, b.in_deck),
     in_hand |-> Then(a.in_hand, b.in_hand),
     belongs_to_player |-> Then(a.belongs_to_player, b.belongs_to_player),
     played |-> Then(a.played, b.played),
     trump |-> Then(a.trump, b.trump),
     travel_time |-> Then(a.travel_time, b.travel_time),
     sleeping |-> Then(a.sleeping, b.sleeping)]

\* The sync point after a chained system whose commands are cmds: they are
\* applied together with the commands of the key-press systems that ran
\* since the last sync, one system's batch after the other's.  The order of
\* the two batches follows the schedule's system order, which the source
\* does not fix: keys_first chooses it.
SyncPoint(cmds, keys_first, base) ==
    LET all == IF keys_first THEN Seq2(pending, cmds) ELSE Seq2(cmds, pending)
    IN /\ in_deck' = Apply(base.in_deck, all.in_deck)
       /\ in_hand' = Apply(base.in_hand, all.in_hand)
       /\ belongs_to_player' = Apply(base.belongs_to_player, all.belongs_to_player)
       /\ played' = Apply(base.played, all.played)
       /\ trump' = Apply(base.trump, all.trump)
       /\ travel_time' = Apply(base.travel_time, all.travel_time)
       /\ sleeping' = Apply(base.sleeping, all.sleeping)
       /\ shuffled' = shuffled \cup {c[1] : c \in DOMAIN pending.in_deck}
       /\ pending' = NoCommands

\* The orders of the two batches that can differ in their result.
BatchOrders == IF pending = NoCommands THEN {TRUE} ELSE BOOLEAN

\* The component storages as they are (no entity spawned by the system).
Storages ==
    [in_deck |-> in_deck, in_hand |-> in_hand,
     belongs_to_player |-> belongs_to_player, played |-> played,
     trump |-> trump, travel_time |-> travel_time, sleeping |-> sleeping]

NextStage(s) ==
    CHOOSE n \in Range(Stages) :
        \E i \in 1..(Len(Stages) - 1) : Stages[i] = s /\ Stages[i + 1] = n

RECURSIVE SumSeq(_)
SumSeq(s) == IF s = <<>> THEN 0 ELSE Head(s) + SumSeq(Tail(s))

\* The num_players of the SpawnTableEvents that setup sends.
SetupChoices ==
    {s \in [1..MaxTables -> 1..MaxSeats] : SumSeq(s) <= MaxSeats}

\* setup: the startup system sends the SpawnTableEvents; nothing is spawned.
Init ==
    /\ stage = "spawn_table"
    /\ spawn_table_events \in SetupChoices
    /\ spawn_deck_events = <<>>
    /\ deal_cards_events = <<>>
    /\ session = <<>>
    /\ needs_dealer = {}
    /\ dealer = {}
    /\ in_deck = <<>>
    /\ in_hand = <<>>
    /\ belongs_to_player = <<>>
    /\ played = <<>>
    /\ trump = <<>>
    /\ behaviour = <<>>
    /\ travel_time = <<>>
    /\ sleeping = <<>>
    /\ transform_y = <<>>
    /\ keys_left = MaxKeyPresses
    /\ pressed = {}
    /\ pending = NoCommands
    /\ dealt_log = <<>>
    /\ shuffled = {}

\* --------------------------------------------------- chained systems 1, 2
\* handle_spawn_table_events: per event, the players, the table (with
\* NeedsDealer) and the session are spawned and a SpawnDeckEvent is sent.
\* player_ids is a HashSet; the players of a table are interchangeable, so
\* its iteration order is taken to be <<t, 1>>, .., <<t, n>>.
handle_spawn_table_events ==
    /\ stage = "spawn_table"
    /\ LET first == Len(session)
           n == Len(spawn_table_events)
           spawned ==
               [j \in 1..n |->
                   [table_id |-> first + j,
                    player_ids |->
                        [k \in 1..spawn_table_events[j] |-> <<first + j, k>>],
                    card_ids |-> <<>>]]
       IN /\ session' = session \o spawned
          /\ needs_dealer' = needs_dealer \cup {first + j : j \in 1..n}
          /\ spawn_deck_events' =
                spawn_deck_events \o [j \in 1..n |-> first + j]
    /\ spawn_table_events' = <<>>
    /\ SyncPoint(NoCommands, TRUE, Storages)
    /\ stage' = NextStage(stage)
    /\ UNCHANGED <<deal_cards_events, dealer, behaviour, transform_y, keys,
                   dealt_log>>

\* The cards handle_spawn_deck_events spawns for session t.
NewCards(t) == [i \in 1..DeckSize |-> <<t, i - 1>>]

\* handle_spawn_deck_events: per event, one card entity per card of
\* get_new_deck, InDeck { index_from_bottom: i } at deck_position + 0.01 * i,
\* inserted into the session's card_ids (a HashSet: h is its iteration
\* order from then on).
handle_spawn_deck_events ==
    /\ stage = "spawn_deck"
    /\ \E h \in HashOrders :
         LET ts == Range(spawn_deck_events) \cap Sessions
             new == {<<t, i>> : t \in ts, i \in 0..(DeckSize - 1)}
             Ext(f, init(_)) ==
                 [c \in DOMAIN f \cup new |->
                     IF c \in new THEN init(c) ELSE f[c]]
             Idx(c) == c[2]
             Pos(c) == SurfaceY + StackStep * c[2]
             base ==
                 [in_deck |-> Ext(in_deck, Idx),
                  in_hand |-> Ext(in_hand, LAMBDA c : None),
                  belongs_to_player |-> Ext(belongs_to_player, LAMBDA c : NoPlayer),
                  played |-> Ext(played, LAMBDA c : FALSE),
                  trump |-> Ext(trump, LAMBDA c : FALSE),
                  travel_time |-> Ext(travel_time, LAMBDA c : None),
                  sleeping |-> Ext(sleeping, LAMBDA c : FALSE)]
         IN /\ session' =
                 [t \in DOMAIN session |->
                     IF t \in ts
                     THEN [session[t] EXCEPT
                             !.card_ids = Permute(@ \o NewCards(t), h)]
                     ELSE session[t]]
            /\ behaviour' = Ext(behaviour, LAMBDA c : "None")
            /\ transform_y' = Ext(transform_y, Pos)
            /\ SyncPoint(NoCommands, TRUE, base)
    /\ spawn_deck_events' = <<>>
    /\ stage' = NextStage(stage)
    /\ UNCHANGED <<spawn_table_events, deal_cards_events, needs_dealer,
                   dealer, keys, dealt_log>>

\* ------------------------------------------ handle_tables_needing_dealer
\* cards_by_player: the session's cards with InHand and BelongsToPlayer,
\* per owner (in the fold's order, that of card_ids).
HandCards(t, p) ==
    SelectSeq(session[t].card_ids,
              LAMBDA c : in_hand[c] # None /\ belongs_to_player[c] = p)

CardsByPlayerKeys(t) ==
    {belongs_to_player[c] : c \in
        {d \in CardsOf(t) : in_hand[d] # None /\ belongs_to_player[d] # NoPlayer}}

\* A selection that deals to every player again as soon as one of them has
\* no card (not the program's).
no_cards_in_hand_all(t) ==
    IF \A p \in PlayersOf(t) : p \in CardsByPlayerKeys(t) THEN <<>>
    ELSE session[t].player_ids

\* A selection that never finds a player without cards (not the
\* program's).
no_cards_in_hand_nobody(t) == <<>>

\* no_cards_in_hand: the players of player_ids with no entry (or an empty
\* one) in cards_by_player, in player_ids' order.
no_cards_in_hand(t) ==
    LET ks == CardsByPlayerKeys(t)
    IN SelectSeq(session[t].player_ids, LAMBDA p : p \notin ks)

RECURSIVE SumRankValues(_)
SumRankValues(cs) ==
    IF cs = <<>> THEN 0
    ELSE RankValue(Card(Head(cs)).rank) + SumRankValues(Tail(cs))

\* player_values: the sum of rank.value() over each owner's cards.
player_values(t) ==
    [p \in CardsByPlayerKeys(t) |-> SumRankValues(HandCards(t, p))]

\* The lowest of the values vs (not the program's).
max_value_lowest(vs) ==
    CHOOSE m \in {vs[p] : p \in DOMAIN vs} : \A p \in DOMAIN vs : m <= vs[p]

\* max_value of the values vs.
max_value(vs) ==
    CHOOSE m \in {vs[p] : p \in DOMAIN vs} : \A p \in DOMAIN vs : vs[p] <= m

\* A tie-break that redeals to every player holding cards (not the
\* program's).
players_with_any_value(t, h) ==
    SelectSeq(Permute(session[t].player_ids, h),
              LAMBDA p : p \in CardsByPlayerKeys(t))

\* players_with_max_value: the keys of the HashMap player_values at the
\* maximum, in the map's iteration order (h).
players_with_max_value(t, h) ==
    LET vs == player_values(t)
        m == max_value(vs)
    IN SelectSeq(Permute(session[t].player_ids, h),
                 LAMBDA p : p \in DOMAIN vs /\ vs[p] = m)

\* The loop body without the check for two players (not the program's).
TableStep_AnySize(t, h) ==
    LET none == no_cards_in_hand(t)
    IN IF none # <<>> THEN [kind |-> "deal", players |-> none]
       ELSE LET winners == players_with_max_value(t, h)
            IN IF Len(winners) = 1
               THEN [kind |-> "dealer", players |-> winners]
               ELSE [kind |-> "tie", players |-> winners]

\* What the loop body does for table t: "skip" (fewer than 2 players),
\* "deal" to the players with no card, "dealer" (a sole maximum) or "tie".
TableStep(t, h) ==
    IF Len(session[t].player_ids) < 2 THEN [kind |-> "skip", players |-> <<>>]
    ELSE LET none == no_cards_in_hand(t)
         IN IF none # <<>> THEN [kind |-> "deal", players |-> none]
            ELSE LET winners == players_with_max_value(t, h)
                 IN IF Len(winners) = 1
                    THEN [kind |-> "dealer", players |-> winners]
                    ELSE [kind |-> "tie", players |-> winners]

\* The DealCardsEvents sent for the tables t, t+1, .. given what the loop
\* body does for each table that carries NeedsDealer.
RECURSIVE DealerEvents(_, _)
DealerEvents(t, steps) ==
    IF t > Len(session) THEN <<>>
    ELSE (IF t \in DOMAIN steps /\ steps[t].kind \in {"deal", "tie"}
          THEN <<[session_id |-> t, player_ids |-> steps[t].players]>>
          ELSE <<>>) \o DealerEvents(t + 1, steps)

\* The iteration orders of player_values that can differ in their result:
\* the order is only seen in the targets of a tie's DealCardsEvent.
TieOrders ==
    IF \E t \in needs_dealer : TableStep(t, <<0, FALSE>>).kind = "tie"
    THEN HashOrders ELSE {<<0, FALSE>>}

\* A selection that marks the Dealer but leaves NeedsDealer on the table
\* (not the program's).
handle_tables_needing_dealer_keeps_flag ==
    /\ stage = "dealer"
    /\ \E h \in TieOrders :
         LET steps == [t \in needs_dealer |-> TableStep(t, h)]
             sole == {t \in needs_dealer : steps[t].kind = "dealer"}
         IN /\ deal_cards_events' = deal_cards_events \o DealerEvents(1, steps)
            /\ needs_dealer' = needs_dealer
            /\ dealer' = dealer \cup {steps[t].players[1] : t \in sole}
    /\ SyncPoint(NoCommands, TRUE, Storages)
    /\ stage' = NextStage(stage)
    /\ UNCHANGED <<spawn_table_events, spawn_deck_events, session, behaviour,
                   transform_y, keys, dealt_log>>

\* A selection that looks at every table, with or without NeedsDealer (not
\* the program's).
handle_tables_needing_dealer_every_table ==
    /\ stage = "dealer"
    /\ \E h \in HashOrders :
         LET steps == [t \in Sessions |-> TableStep(t, h)]
             sole == {t \in Sessions : steps[t].kind = "dealer"}
         IN /\ deal_cards_events' = deal_cards_events \o DealerEvents(1, steps)
            /\ needs_dealer' = needs_dealer \ sole
            /\ dealer' = dealer \cup {steps[t].players[1] : t \in sole}
    /\ SyncPoint(NoCommands, TRUE, Storages)
    /\ stage' = NextStage(stage)
    /\ UNCHANGED <<spawn_table_events, spawn_deck_events, session, behaviour,
                   transform_y, keys, dealt_log>>

handle_tables_needing_dealer ==
    /\ stage = "dealer"
    /\ \E h \in TieOrders :
         LET steps == [t \in needs_dealer |-> TableStep(t, h)]
             sole == {t \in needs_dealer : steps[t].kind = "dealer"}
         IN /\ deal_cards_events' = deal_cards_events \o DealerEvents(1, steps)
            /\ needs_dealer' = needs_dealer \ sole
            /\ dealer' = dealer \cup {steps[t].players[1] : t \in sole}
    /\ SyncPoint(NoCommands, TRUE, Storages)
    /\ stage' = NextStage(stage)
    /\ UNCHANGED <<spawn_table_events, spawn_deck_events, session, behaviour,
                   transform_y, keys, dealt_log>>

\* ---------------------------------------------- handle_deal_cards_events
\* hand_sizes: over every card with BelongsToPlayer and InHand, the number
\* per owner; a player without such a card has no entry.
hand_sizes ==
    LET held == {c \in Cards : in_hand[c] # None /\ belongs_to_player[c] # NoPlayer}
    IN [p \in {belongs_to_player[c] : c \in held} |->
           Cardinality({c \in held : belongs_to_player[c] = p})]

\* A distributor that takes from the bottom of the deck (not the
\* program's).
top_cards_unreversed(t) ==
    sorted_by_key(
        SelectSeq(session[t].card_ids, LAMBDA c : in_deck[c] # None),
        transform_y)

\* All sessions' card_ids, one after the other.
RECURSIVE AllCardIds(_)
AllCardIds(t) ==
    IF t > Len(session) THEN <<>>
    ELSE session[t].card_ids \o AllCardIds(t + 1)

\* A distributor that takes from the highest cards of all decks (not the
\* program's).
top_cards_global(t) ==
    Reverse(sorted_by_key(
        SelectSeq(AllCardIds(1), LAMBDA c : in_deck[c] # None),
        transform_y))

\* top_cards: the session's cards with InDeck, sorted by (1000.0 * y) as i32
\* and reversed.
top_cards(t) ==
    Reverse(sorted_by_key(
        SelectSeq(session[t].card_ids, LAMBDA c : in_deck[c] # None),
        transform_y))

\* A distributor that leaves InDeck on the card it deals (not the
\* program's).
DealOne_KeepsInDeck(acc, player_id, card_id) ==
    LET known == player_id \in DOMAIN acc.hand_sizes
        hand_size == IF known THEN acc.hand_sizes[player_id] ELSE 0
        c == acc.cmds
    IN [hand_sizes |->
            IF known THEN [acc.hand_sizes EXCEPT ![player_id] = @ + 1]
            ELSE acc.hand_sizes,
        cmds |->
            [c EXCEPT
                !.belongs_to_player = (card_id :> player_id) @@ @,
                !.in_hand = (card_id :> hand_size) @@ @,
                !.sleeping = (card_id :> FALSE) @@ @],
        dealt |-> Append(acc.dealt,
                    [card |-> card_id, player |-> player_id,
                     index |-> hand_size]),
        log |-> acc.log]

\* A distributor that does not attach the owner to the card it deals (not
\* the program's).
DealOne_NoOwner(acc, player_id, card_id) ==
    LET known == player_id \in DOMAIN acc.hand_sizes
        hand_size == IF known THEN acc.hand_sizes[player_id] ELSE 0
        c == acc.cmds
    IN [hand_sizes |->
            IF known THEN [acc.hand_sizes EXCEPT ![player_id] = @ + 1]
            ELSE acc.hand_sizes,
        cmds |->
            [c EXCEPT
                !.in_deck = (card_id :> None) @@ @,
                !.in_hand = (card_id :> hand_size) @@ @,
                !.sleeping = (card_id :> FALSE) @@ @],
        dealt |-> Append(acc.dealt,
                    [card |-> card_id, player |-> player_id,
                     index |-> hand_size]),
        log |-> acc.log]

\* A distributor that puts every card it deals at index_from_left 0 (not
\* the program's).
DealOne_IndexZero(acc, player_id, card_id) ==
    LET c == acc.cmds
    IN [hand_sizes |-> acc.hand_sizes,
        cmds |->
            [c EXCEPT
                !.in_deck = (card_id :> None) @@ @,
                !.belongs_to_player = (card_id :> player_id) @@ @,
                !.in_hand = (card_id :> 0) @@ @,
                !.sleeping = (card_id :> FALSE) @@ @],
        dealt |-> Append(acc.dealt,
                    [card |-> card_id, player |-> player_id,
                     index |-> 0]),
        log |-> acc.log]

\* A distributor that puts the card it deals at the left end of the hand
\* and moves the cards already held one place to the right (not the
\* program's).
DealOne_PushesHand(acc, player_id, card_id) ==
    LET held == {h \in Cards : in_hand[h] # None /\ belongs_to_player[h] = player_id}
        c == acc.cmds
    IN [hand_sizes |-> acc.hand_sizes,
        cmds |->
            [c EXCEPT
                !.in_deck = (card_id :> None) @@ @,
                !.belongs_to_player = (card_id :> player_id) @@ @,
                !.in_hand = (card_id :> 0) @@ [h \in held |-> in_hand[h] + 1] @@ @,
                !.sleeping = (card_id :> FALSE) @@ @],
        dealt |-> Append(acc.dealt,
                    [card |-> card_id, player |-> player_id,
                     index |-> 0]),
        log |-> acc.log]

\* The closure of the zip for one (player_id, card_id): acc carries the
\* hand_sizes map, the commands queued so far and this event's log lines.
DealOne(acc, player_id, card_id) ==
    LET known == player_id \in DOMAIN acc.hand_sizes
        hand_size == IF known THEN acc.hand_sizes[player_id] ELSE 0
        c == acc.cmds
    IN [hand_sizes |->
            IF known THEN [acc.hand_sizes EXCEPT ![player_id] = @ + 1]
            ELSE acc.hand_sizes,
        cmds |->
            [c EXCEPT
                !.in_deck = (card_id :> None) @@ @,
                !.belongs_to_player = (card_id :> player_id) @@ @,
                !.in_hand = (card_id :> hand_size) @@ @,
                !.sleeping = (card_id :> FALSE) @@ @],
        dealt |-> Append(acc.dealt,
                    [card |-> card_id, player |-> player_id,
                     index |-> hand_size]),
        log |-> acc.log]

\* A distributor that deals nothing when the deck is short of the request
\* (not the program's).
RECURSIVE DealZip_AllOrNothing(_, _, _, _)
DealZip_AllOrNothing(acc, players, top, j) ==
    IF Len(top) < Len(players) \/ j > Len(players) THEN acc
    ELSE DealZip_AllOrNothing(DealOne(acc, players[j], top[j]),
                              players, top, j + 1)

RECURSIVE DealZip(_, _, _, _)
DealZip(acc, players, top, j) ==
    IF j > Min(Len(players), Len(top)) THEN acc
    ELSE DealZip(DealOne(acc, players[j], top[j]), players, top, j + 1)

\* A distributor that finds no session for any request (not the program's).
DealEvent_SessionNotFound(acc, event) == acc

\* One iteration of the loop over the events.
DealEvent(acc, event) ==
    IF event.session_id \notin Sessions THEN acc
    ELSE LET top == top_cards(event.session_id)
             done == DealZip([acc EXCEPT !.dealt = <<>>],
                             event.player_ids, top, 1)
         IN [done EXCEPT
               !.log = Append(@,
                   [session_id |-> event.session_id,
                    player_ids |-> event.player_ids,
                    insufficient |-> Len(event.player_ids) > Len(top),
                    dealt |-> done.dealt])]

RECURSIVE DealEvents(_, _)
DealEvents(acc, evs) ==
    IF evs = <<>> THEN acc
    ELSE DealEvents(DealEvent(acc, Head(evs)), Tail(evs))

DealResult ==
    DealEvents([hand_sizes |-> hand_sizes, cmds |-> NoCommands,
                dealt |-> <<>>, log |-> <<>>],
               deal_cards_events)

handle_deal_cards_events ==
    /\ stage = "deal"
    /\ LET result == DealResult
       IN /\ dealt_log' = result.log
          /\ \E keys_first \in BatchOrders :
               SyncPoint(result.cmds, keys_first, Storages)
    /\ deal_cards_events' = <<>>
    /\ stage' = NextStage(stage)
    /\ UNCHANGED <<spawn_table_events, spawn_deck_events, world, behaviour,
                   transform_y, keys>>

\* --------------------------------- determine_card_positioning_behaviours
\* A classifier that looks at InDeck before InHand (not the program's).
Decide_DeckFirst(has_player, is_in_deck, is_in_hand, is_played, is_trump) ==
    IF is_in_deck THEN "InDeck"
    ELSE IF is_in_hand THEN "InHand"
    ELSE IF is_played THEN "Played"
    ELSE IF is_trump THEN "RevealedOnDeck"
    ELSE "None"

\* The match on Decision: the first arm that applies.
Decide(has_player, is_in_deck, is_in_hand, is_played, is_trump) ==
    IF is_in_hand THEN "InHand"
    ELSE IF is_in_deck THEN "InDeck"
    ELSE IF is_played THEN "Played"
    ELSE IF is_trump THEN "RevealedOnDeck"
    ELSE "None"

\* A classifier that removes the TravelTime of a card whose behaviour it
\* changes (not the program's).
determine_card_positioning_behaviours_restarting ==
    /\ stage = "classify"
    /\ behaviour' =
          [c \in Cards |->
              Decide(belongs_to_player[c] # NoPlayer, in_deck[c] # None,
                     in_hand[c] # None, played[c], trump[c])]
    /\ SyncPoint([NoCommands EXCEPT
                    !.travel_time =
                        [c \in {d \in Cards : behaviour'[d] # behaviour[d]}
                            |-> None]],
                 TRUE, Storages)
    /\ stage' = NextStage(stage)
    /\ UNCHANGED <<events, world, transform_y, keys, dealt_log>>

determine_card_positioning_behaviours ==
    /\ stage = "classify"
    /\ behaviour' =
          [c \in Cards |->
              Decide(belongs_to_player[c] # NoPlayer, in_deck[c] # None,
                     in_hand[c] # None, played[c], trump[c])]
    /\ SyncPoint(NoCommands, TRUE, Storages)
    /\ stage' = NextStage(stage)
    /\ UNCHANGED <<events, world, transform_y, keys, dealt_log>>

\* ------------------------------------------------------------ the solvers
ISqrt(n) == CHOOSE r \in 0..100 : r * r <= n /\ n < (r + 1) * (r + 1)

\* A progress that grows half as fast and stops at one half (not the
\* program's).
Progress_Slow(age) ==
    ISqrt((10000 * Min(age, TicksPerSecond)) \div TicksPerSecond) \div 2

\* progress = elapsed.min(1.0).powf(0.5), in hundredths, of a TravelTime
\* that started age ticks ago.
Progress(age) ==
    ISqrt((10000 * Min(age, TicksPerSecond)) \div TicksPerSecond)

\* current.lerp(desired, progress)
Lerp(current, desired, progress) ==
    current + ((desired - current) * progress) \div 100

\* "get or set travel start time": the elapsed ticks the solver computes with.
Elapsed(c) == IF travel_time[c] = None THEN 0 ELSE travel_time[c]

\* A solver that leaves the TravelTime on a card it puts to rest (not the
\* program's).
SolverCommands_KeepsTravelTime(positioned) ==
    LET resting == {c \in positioned : Progress(Elapsed(c)) >= RestPct}
        started == {c \in positioned : travel_time[c] = None}
    IN [NoCommands EXCEPT
          !.travel_time = [c \in started |-> 0],
          !.sleeping = [c \in resting |-> TRUE]]

\* The commands a solver queues for the cards it positions: TravelTime is
\* inserted where missing, and at progress >= 0.99 it is removed and
\* Sleeping inserted.
SolverCommands(positioned) ==
    LET resting == {c \in positioned : Progress(Elapsed(c)) >= RestPct}
        started == {c \in positioned : travel_time[c] = None}
    IN [NoCommands EXCEPT
          !.travel_time =
              [c \in started \cup resting |->
                  IF c \in resting THEN None ELSE 0],
          !.sleeping = [c \in resting |-> TRUE]]

\* handle_cards_positioning_cards_in_deck, per session: the cards of the
\* query (CardPositioningBehaviour, InDeck) sorted by index_from_bottom.
cards_in_deck(t) ==
    sorted_by_key(
        SelectSeq(session[t].card_ids,
                  LAMBDA c : behaviour[c] # "None" /\ in_deck[c] # None),
        in_deck)

\* A deck solver that also positions the cards that rest (not the
\* program's).
DeckToPosition_Resting(t) ==
    {c \in Range(cards_in_deck(t)) : behaviour[c] = "InDeck"}

\* cards_to_position of the deck solver.
DeckToPosition(t) ==
    {c \in Range(cards_in_deck(t)) : ~sleeping[c] /\ behaviour[c] = "InDeck"}

\* (desired_pos).y of a card at index i over a bottom card at bottom_y:
\* index 0 lies on the table, the others are stacked on the bottom card's
\* transform as it is.
DeckDesired(i, bottom_y) ==
    IF i = 0 THEN SurfaceY ELSE bottom_y + i * StackStep

\* The translation.y the deck solver leaves each card with.
DeckSolved ==
    LET sorted == [t \in Sessions |-> cards_in_deck(t)]
        moving == UNION {DeckToPosition(t) : t \in Sessions}
    IN [c \in Cards |->
           IF c \in moving
           THEN Lerp(transform_y[c],
                     DeckDesired(in_deck[c], transform_y[sorted[c[1]][1]]),
                     Progress(Elapsed(c)))
           ELSE transform_y[c]]

handle_cards_positioning_cards_in_deck ==
    /\ stage = "deck_pos"
    /\ transform_y' = DeckSolved
    /\ LET cmds == SolverCommands(UNION {DeckToPosition(t) : t \in Sessions})
       IN \E keys_first \in BatchOrders :
            SyncPoint(cmds, keys_first, Storages)
    /\ stage' = NextStage(stage)
    /\ UNCHANGED <<events, world, behaviour, keys, dealt_log>>

\* handle_cards_positioning_cards_in_hand, per session and player: the cards
\* of the query (CardPositioningBehaviour, InHand, BelongsToPlayer) owned by
\* the player, sorted by index_from_left.
cards_in_hand(t, p) ==
    sorted_by_key(
        SelectSeq(session[t].card_ids,
                  LAMBDA c : /\ behaviour[c] # "None"
                             /\ in_hand[c] # None
                             /\ belongs_to_player[c] = p),
        in_hand)

\* cards_to_position of the hand solver.
HandToPosition(t, p) ==
    {c \in Range(cards_in_hand(t, p)) : ~sleeping[c] /\ behaviour[c] = "InHand"}

\* (desired_pos).y of a card at index i right of a leftmost card at left_y:
\* index 0 is held in front of the player, the others are fanned sideways
\* from the leftmost card's transform as it is.
HandDesired(i, left_y) ==
    IF i = 0 THEN PlayerY ELSE left_y

AllHandsToPosition ==
    UNION {HandToPosition(t, p) : t \in Sessions, p \in
              UNION {PlayersOf(u) : u \in Sessions}}

\* The translation.y the hand solver leaves each card with.
HandSolved ==
    LET moving == AllHandsToPosition
    IN [c \in Cards |->
           IF c \in moving
           THEN Lerp(transform_y[c],
                     HandDesired(in_hand[c],
                        transform_y[cards_in_hand(c[1], belongs_to_player[c])[1]]),
                     Progress(Elapsed(c)))
           ELSE transform_y[c]]

handle_cards_positioning_cards_in_hand ==
    /\ stage = "hand_pos"
    /\ transform_y' = HandSolved
    /\ LET cmds == SolverCommands(AllHandsToPosition)
       IN \E keys_first \in BatchOrders :
            SyncPoint(cmds, keys_first, Storages)
    /\ stage' = NextStage(stage)
    /\ UNCHANGED <<events, world, behaviour, keys, dealt_log>>

\* ------------------------------------------------------------- the frame
\* The frame ends and the next begins dt ticks later: every TravelTime's
\* elapsed time grows (it is only ever read through min(1.0)), the keys'
\* just_pressed state is new.
next_frame ==
    /\ stage = "frame_end"
    /\ \E dt \in 1..TicksPerSecond :
         travel_time' =
            [c \in Cards |->
                IF travel_time[c] = None THEN None
                ELSE Min(travel_time[c] + dt, TicksPerSecond)]
    /\ pressed' = {}
    /\ dealt_log' = <<>>
    /\ stage' = Stages[1]
    /\ UNCHANGED <<events, world, flags, behaviour, sleeping, transform_y,
                   keys_left, pending, shuffled>>

\* ------------------------------------------------------ key-press systems
\* input.just_pressed(key) holds in at most one run of the system per frame.
KeyPress(key) ==
    /\ stage # "frame_end"
    /\ keys_left > 0
    /\ key \notin pressed
    /\ keys_left' = keys_left - 1
    /\ pressed' = pressed \cup {key}

\* Digit1: a DealCardsEvent per session, to all its players.
handle_deal_key_press ==
    /\ KeyPress("Digit1")
    /\ deal_cards_events' = deal_cards_events \o
          [t \in 1..Len(session) |->
              [session_id |-> t, player_ids |-> session[t].player_ids]]
    /\ UNCHANGED <<stage, spawn_table_events, spawn_deck_events, world, flags,
                   behaviour, motion, pending, dealt_log, shuffled>>

\* KeyF: remove Sleeping from every entity that has it now.
handle_sleeping_key_press ==
    /\ KeyPress("KeyF")
    /\ pending' =
          [pending EXCEPT
              !.sleeping = [c \in {d \in Cards : sleeping[d]} |-> FALSE] @@ @]
    /\ UNCHANGED <<stage, events, world, flags, behaviour, motion, dealt_log,
                   shuffled>>

\* A reset that puts every card at index_from_bottom 0 (not the program's).
ShuffleIndex_Zero == [c \in Cards |-> 0]

\* (i, card_id) of session.card_ids.iter().enumerate(), over all sessions.
ShuffleIndex ==
    [c \in Cards |->
        CHOOSE i \in 0..(DeckSize - 1) : session[c[1]].card_ids[i + 1] = c]

\* KeyR: every card of every session loses InHand, Played, Trump,
\* BelongsToPlayer and Sleeping and gets InDeck { index_from_bottom: i }.
handle_shuffle_back_in_key_press ==
    /\ KeyPress("KeyR")
    /\ pending' =
          [in_deck |-> ShuffleIndex,
           in_hand |-> [c \in Cards |-> None],
           belongs_to_player |-> [c \in Cards |-> NoPlayer],
           played |-> [c \in Cards |-> FALSE],
           trump |-> [c \in Cards |-> FALSE],
           travel_time |-> pending.travel_time,
           sleeping |-> [c \in Cards |-> FALSE]]
    /\ UNCHANGED <<stage, events, world, flags, behaviour, motion, dealt_log,
                   shuffled>>

Next ==
    \/ handle_spawn_table_events
    \/ handle_spawn_deck_events
    \/ handle_tables_needing_dealer
    \/ handle_deal_cards_events
    \/ determine_card_positioning_behaviours
    \/ handle_cards_positioning_cards_in_deck
    \/ handle_cards_positioning_cards_in_hand
    \/ next_frame
    \/ handle_deal_key_press
    \/ handle_sleeping_key_press
    \/ handle_shuffle_back_in_key_press

Spec == Init /\ [][Next]_vars

\* ------------------------------------------------------------ well-formed
TypeOK ==
    /\ stage \in Range(Stages)
    /\ \A c \in Cards :
         /\ in_deck[c] \in {None} \cup 0..(DeckSize - 1)
         /\ in_hand[c] \in {None} \cup 0..DeckSize
         /\ belongs_to_player[c] \in {NoPlayer} \cup PlayersOf(c[1])
         /\ travel_time[c] \in {None} \cup 0..TicksPerSecond
         /\ sleeping[c] \in BOOLEAN
    /\ \A t \in Sessions : CardsByPlayerKeys(t) \subseteq PlayersOf(t)

\* ================================================================ claims
\* The notions the claims are stated in, read off the component storages.
Hand(p) == {c \in Cards : in_hand[c] # None /\ belongs_to_player[c] = p}

Deck(t) == {c \in CardsOf(t) : in_deck[c] # None}

Players == UNION {PlayersOf(t) : t \in Sessions}

\* The step of the chained system that runs at stage s.
Ran(s) == stage = s /\ stage' = NextStage(s)

\* No commands of a key-press system are applied at the coming sync.
QuietSync == pending = NoCommands

Distinct(s) == Cardinality(Range(s)) = Len(s)

\* ----------------------------------------------------------------- C1
\* C1: in every reachable state, every card of every session carries at
\* most one of the placement flags InDeck, InHand, Played, InTakenTrick
\* (InTakenTrick is no component of this source: no card ever carries it).
C1_AtMostOnePlacement ==
    \A c \in Cards :
        Cardinality({f \in {"InDeck", "InHand", "Played"} :
            \/ f = "InDeck" /\ in_deck[c] # None
            \/ f = "InHand" /\ in_hand[c] # None
            \/ f = "Played" /\ played[c]}) <= 1

\* A card is in a hand again after its session was shuffled back.
C1_Witness ==
    \E c \in Cards : c[1] \in shuffled /\ in_hand[c] # None

\* ----------------------------------------------------------------- C2
\* C2: when handle_deal_cards_events reads a single request that names K
\* pairwise distinct players and the session has at least K cards in the
\* deck, each named player's hand grows by exactly one card, whose
\* index_from_left is the size the hand had; the other hands are unchanged
\* (at a sync that applies no key-press commands).
C2_SingleDealGrowsHands ==
    [][(/\ Ran("deal")
        /\ QuietSync
        /\ Len(deal_cards_events) = 1
        /\ Distinct(deal_cards_events[1].player_ids)
        /\ Cardinality(Deck(deal_cards_events[1].session_id))
              >= Len(deal_cards_events[1].player_ids))
       => \A p \in Players :
            IF p \in Range(deal_cards_events[1].player_ids)
            THEN /\ Hand(p) \subseteq Hand(p)'
                 /\ \E c \in Cards :
                      /\ Hand(p)' = Hand(p) \cup {c}
                      /\ c \notin Hand(p)
                      /\ in_hand'[c] = Cardinality(Hand(p))
                 /\ \A c \in Hand(p) : in_hand'[c] = in_hand[c]
            ELSE /\ Hand(p)' = Hand(p)
                 /\ \A c \in Hand(p) : in_hand'[c] = in_hand[c]]_vars

\* A single request to two or more players was dealt in full, to a player
\* who already held a card.
C2_Witness ==
    /\ stage = "classify"
    /\ pending = NoCommands
    /\ Len(dealt_log) = 1
    /\ ~dealt_log[1].insufficient
    /\ Len(dealt_log[1].player_ids) >= 2
    /\ \E j \in 1..Len(dealt_log[1].dealt) : dealt_log[1].dealt[j].index >= 1
    /\ \A j \in 1..Len(dealt_log[1].dealt) :
         in_hand[dealt_log[1].dealt[j].card] = dealt_log[1].dealt[j].index

\* ----------------------------------------------------------------- C3
\* C3: after any sequence of deal requests (several of them read in the
\* same frame included), the index_from_left values of the cards in each
\* player's hand are pairwise distinct and form the run 0..n-1, n the size
\* of the hand.
C3_HandIndicesContiguous ==
    \A p \in Players :
        /\ {in_hand[c] : c \in Hand(p)} = 0..(Cardinality(Hand(p)) - 1)
        /\ \A c, d \in Hand(p) : in_hand[c] = in_hand[d] => c = d

\* ----------------------------------------------------------------- C4
\* The number of cards in the deck of t with a higher index_from_bottom
\* than card c.
CardsAbove(t, c) ==
    Cardinality({d \in Deck(t) : in_deck[d] > in_deck[c]})

\* C4: for every deal request that handle_deal_cards_events reads, the Nth
\* target receives the card with the Nth highest index_from_bottom among
\* the cards in the deck of the request's session.
C4_NthTargetGetsNthHighestIndex ==
    [][Ran("deal") =>
        \A k \in 1..Len(dealt_log') :
            \A j \in 1..Len(dealt_log'[k].dealt) :
                /\ dealt_log'[k].dealt[j].player = dealt_log'[k].player_ids[j]
                /\ CardsAbove(dealt_log'[k].session_id,
                              dealt_log'[k].dealt[j].card) = j - 1]_vars

LoggedFor(t) ==
    {k \in 1..Len(dealt_log') : dealt_log'[k].session_id = t}

\* C6: a request with K targets for a session with only R < K cards in the
\* deck deals exactly R cards, to the first R targets in order; the other
\* K-R targets' hands are unchanged (when it is the frame's only request
\* for the session and the sync applies no key-press commands); and every
\* request queued with it is read too, each dealing min(K, R) cards.
C6_PartialDealKeepsBatch ==
    [][Ran("deal") =>
        /\ Len(dealt_log') = Len(deal_cards_events)
        /\ \A k \in 1..Len(deal_cards_events) :
             LET e == deal_cards_events[k]
                 K == Len(e.player_ids)
                 R == Cardinality(Deck(e.session_id))
                 d == dealt_log'[k].dealt
             IN /\ dealt_log'[k].session_id = e.session_id
                /\ dealt_log'[k].player_ids = e.player_ids
                /\ dealt_log'[k].insufficient = (R < K)
                /\ Len(d) = Min(K, R)
                /\ \A j \in 1..Len(d) : d[j].player = e.player_ids[j]
                /\ (R < K /\ QuietSync /\ LoggedFor(e.session_id) = {k}) =>
                     \A p \in Players : \A j \in 1..K :
                         p = e.player_ids[j] =>
                            IF j <= R
                            THEN Cardinality(Hand(p)') =
                                    Cardinality(Hand(p)) + 1
                            ELSE /\ Hand(p)' = Hand(p)
                                 /\ \A c \in Hand(p) :
                                       in_hand'[c] = in_hand[c]]_vars

\* A request that ran short of cards (some dealt, some targets left out)
\* was followed in the same frame by a request that dealt a card.
C6_Witness ==
    /\ stage = "classify"
    /\ \E k \in 1..Len(dealt_log) :
         /\ dealt_log[k].insufficient
         /\ dealt_log[k].dealt # <<>>
         /\ \E m \in (k + 1)..Len(dealt_log) : dealt_log[m].dealt # <<>>

\* ------------------------------------------------- dealer selection
\* The rank values as the specification lists them: Two=2 .. King=13,
\* Ace=14.
RankOrder == <<"Two", "Three", "Four", "Five", "Six", "Seven", "Eight",
               "Nine", "Ten", "Jack", "Queen", "King", "Ace">>

ListedValue(rank) == 1 + (CHOOSE i \in 1..Len(RankOrder) : RankOrder[i] = rank)

RECURSIVE SumListed(_)
SumListed(cs) ==
    IF cs = {} THEN 0
    ELSE LET c == CHOOSE x \in cs : TRUE
         IN ListedValue(Card(c).rank) + SumListed(cs \ {c})

\* A player's score: the sum of the rank values of the cards in the hand.
Score(p) == SumListed(Hand(p))

\* The players of table t at the maximum score.
AtMax(t) == {p \in PlayersOf(t) : \A q \in PlayersOf(t) : Score(q) <= Score(p)}

\* The players of table t that hold no card.
EmptyHanded(t) == {p \in PlayersOf(t) : Hand(p) = {}}

\* The deal requests this step sent for session t.
Sent(t) ==
    {k \in (Len(deal_cards_events) + 1)..Len(deal_cards_events') :
        deal_cards_events'[k].session_id = t}

\* This step sent exactly one deal request for session t, addressed to
\* exactly the players ps, each once.
SentOneTo(t, ps) ==
    /\ Cardinality(Sent(t)) = 1
    /\ \A k \in Sent(t) :
         /\ Range(deal_cards_events'[k].player_ids) = ps
         /\ Len(deal_cards_events'[k].player_ids) = Cardinality(ps)

\* This step marked no player of table t as Dealer.
NoNewDealer(t) == dealer' \cap PlayersOf(t) = dealer \cap PlayersOf(t)

\* This step is a run of handle_tables_needing_dealer that gets past the
\* check for two players on table t.
Selecting(t) ==
    /\ Ran("dealer")
    /\ t \in needs_dealer
    /\ Len(session[t].player_ids) >= 2

\* ----------------------------------------------------------------- C7
\* C7: when handle_tables_needing_dealer looks at a table with at least
\* two players, each holding a card, and two or more of them share the
\* maximum score, it sends one deal request addressed to exactly the
\* players at the maximum, marks no player as Dealer and leaves
\* NeedsDealer; and NeedsDealer only ever leaves a table in a run of
\* handle_tables_needing_dealer in which exactly one player (all of them
\* holding cards) has the maximum score.
C7_TieRedealsToTheTied ==
    [][\A t \in Sessions :
         /\ (Selecting(t) /\ EmptyHanded(t) = {}
                /\ Cardinality(AtMax(t)) >= 2) =>
               /\ SentOneTo(t, AtMax(t))
               /\ NoNewDealer(t)
               /\ t \in needs_dealer'
         /\ (t \in needs_dealer /\ t \notin needs_dealer') =>
               /\ Selecting(t)
               /\ EmptyHanded(t) = {}
               /\ Cardinality(AtMax(t)) = 1]_vars

\* A tie among some but not all players of a table was answered by a deal
\* request to the tied players, and the table still needs a dealer.
C7_Witness ==
    /\ stage = "deal"
    /\ pending = NoCommands
    /\ \E t \in needs_dealer :
         /\ EmptyHanded(t) = {}
         /\ Cardinality(AtMax(t)) >= 2
         /\ AtMax(t) # PlayersOf(t)
         /\ \E k \in 1..Len(deal_cards_events) :
              /\ deal_cards_events[k].session_id = t
              /\ Range(deal_cards_events[k].player_ids) = AtMax(t)

C9_EmptyHandsAreDealtFirst ==
    [][\A t \in Sessions :
         (Selecting(t) /\ EmptyHanded(t) # {}) =>
            /\ SentOneTo(t, EmptyHanded(t))
            /\ NoNewDealer(t)
            /\ t \in needs_dealer']_vars

\* Some but not all players of a table held no card, one of the others
\* had the highest score alone, and the deal request went to the players
\* without a card only.
C9_Witness ==
    /\ stage = "deal"
    /\ pending = NoCommands
    /\ \E t \in needs_dealer :
         /\ EmptyHanded(t) # {}
         /\ EmptyHanded(t) # PlayersOf(t)
         /\ Cardinality(AtMax(t)) = 1
         /\ dealer \cap PlayersOf(t) = {}
         /\ \E k \in 1..Len(deal_cards_events) :
              /\ deal_cards_events[k].session_id = t
              /\ Range(deal_cards_events[k].player_ids) = EmptyHanded(t)

\* ---------------------------------------------------------------- C10
\* C10: a table with fewer than two players keeps NeedsDealer in every
\* step and none of its players is ever marked Dealer;
\* handle_tables_needing_dealer sends no deal request for its session, and
\* in the same run every table with two or more players that needs a
\* dealer is still answered (a deal request, or its dealer).
C10_SmallTableIsSkipped ==
    [][\A t \in Sessions :
         (t \in needs_dealer /\ Len(session[t].player_ids) < 2) =>
            /\ t \in needs_dealer'
            /\ dealer' \cap PlayersOf(t) = {}
            /\ Ran("dealer") =>
                 /\ Sent(t) = {}
                 /\ \A u \in Sessions :
                      Selecting(u) => Sent(u) # {} \/ u \notin needs_dealer']_vars

\* handle_tables_needing_dealer has run over a one-player table and then
\* over a table with more players: only the latter has a deal request.
C10_Witness ==
    /\ stage = "deal"
    /\ \E t, u \in needs_dealer :
         /\ t < u
         /\ Len(session[t].player_ids) < 2
         /\ Len(session[u].player_ids) >= 2
         /\ \E k \in 1..Len(deal_cards_events) :
              deal_cards_events[k].session_id = u
         /\ \A k \in 1..Len(deal_cards_events) :
              deal_cards_events[k].session_id # t

\* ---------------------------------------------------------------- C11
\* The players of table t marked Dealer.
DealersOf(t) == dealer \cap PlayersOf(t)

\* C11: in every reachable state a session has at most one player marked
\* Dealer, and it has one only when its table no longer carries
\* NeedsDealer.
C11_OneDealerAfterSelection ==
    \A t \in Sessions :
        /\ Cardinality(DealersOf(t)) <= 1
        /\ DealersOf(t) # {} => t \notin needs_dealer

\* A table whose selection went through a tie has its dealer, while
\* another table still needs one.
C11_Witness ==
    \E t, u \in Sessions :
        /\ Cardinality(DealersOf(t)) = 1
        /\ \E p \in PlayersOf(t) : Cardinality(Hand(p)) >= 2
        /\ u \in needs_dealer

\* ---------------------------------------------------------------- C12
\* The classifier alone, on cards carrying any set of flags and any
\* behaviour from the tick before: one session of ClassifyCards cards and
\* one player, the frame right before determine_card_positioning_behaviours.
BehaviourTags == {"None", "InDeck", "RevealedOnDeck", "InHand", "Played",
                  "InTakenTrick"}

ClassifyInit ==
    LET cs == {<<1, i>> : i \in 0..(ClassifyCards - 1)}
    IN /\ stage = "classify"
       /\ spawn_table_events = <<>>
       /\ spawn_deck_events = <<>>
       /\ deal_cards_events = <<>>
       /\ session = <<[table_id |-> 1, player_ids |-> <<<<1, 1>>>>,
                       card_ids |-> [i \in 1..ClassifyCards |-> <<1, i - 1>>]]>>
       /\ needs_dealer = {1}
       /\ dealer = {}
       /\ in_deck \in [cs -> {None, 0}]
       /\ in_hand \in [cs -> {None, 0}]
       /\ belongs_to_player \in [cs -> {NoPlayer, <<1, 1>>}]
       /\ played \in [cs -> BOOLEAN]
       /\ trump \in [cs -> BOOLEAN]
       /\ behaviour \in [cs -> BehaviourTags]
       /\ travel_time = [c \in cs |-> None]
       /\ sleeping = [c \in cs |-> FALSE]
       /\ transform_y = [c \in cs |-> SurfaceY]
       /\ keys_left = 0
       /\ pressed = {}
       /\ pending = NoCommands
       /\ dealt_log = <<>>
       /\ shuffled = {}

ClassifyNext == determine_card_positioning_behaviours

ClassifySpec == ClassifyInit /\ [][ClassifyNext]_vars

\* The placement flags of card c, as the classifier reads them.
FlagSet(c) ==
    <<in_hand[c] # None, in_deck[c] # None, played[c], trump[c]>>

\* The behaviour the specification's priority list gives a flag set.
ByPriority(fs) ==
    CASE fs[1] -> "InHand"
      [] ~fs[1] /\ fs[2] -> "InDeck"
      [] ~fs[1] /\ ~fs[2] /\ fs[3] -> "Played"
      [] ~fs[1] /\ ~fs[2] /\ ~fs[3] /\ fs[4] -> "RevealedOnDeck"
      [] OTHER -> "None"

\* C12: determine_card_positioning_behaviours gives every card the
\* behaviour of the first of InHand, InDeck, Played, Trump (the latter as
\* RevealedOnDeck) that it carries, with or without an owner, and no
\* behaviour when it carries none; two cards with the same flags get the
\* same behaviour whatever behaviour each had before.
C12_ClassifierFollowsPriority ==
    [][Ran("classify") =>
         /\ \A c \in Cards : behaviour'[c] = ByPriority(FlagSet(c))
         /\ \A c, d \in Cards :
              FlagSet(c) = FlagSet(d) => behaviour'[c] = behaviour'[d]]_vars

\* The classifier has run over a card with InHand and InDeck and no owner
\* (now InHand) and over a card with Played and Trump (now Played).
C12_Witness ==
    /\ stage = "deck_pos"
    /\ in_hand[<<1, 0>>] # None
    /\ in_deck[<<1, 0>>] # None
    /\ belongs_to_player[<<1, 0>>] = NoPlayer
    /\ behaviour[<<1, 0>>] = "InHand"
    /\ in_hand[<<1, 1>>] = None /\ in_deck[<<1, 1>>] = None
    /\ played[<<1, 1>>] /\ trump[<<1, 1>>]
    /\ behaviour[<<1, 1>>] = "Played"

\* ---------------------------------------------------------------- C13
\* This step's sync point applies the commands of a KeyR press.
ResetApplied == pending.in_deck # <<>> /\ pending' = NoCommands

\* The cards that the deal requests read in this step have taken.
TakenNow ==
    IF stage = "deal"
    THEN UNION {{dealt_log'[k].dealt[j].card :
                    j \in 1..Len(dealt_log'[k].dealt)} :
                k \in 1..Len(dealt_log')}
    ELSE {}

\* C13: when the commands of a 'move all cards back to deck' request are
\* applied, every card of every session (but the cards that deal requests
\* of the same sync point take) carries InDeck and no InHand, Played or
\* Trump and has no owner; when no card is dealt at that sync point the
\* index_from_bottom values of each session's cards are pairwise distinct
\* and form the run 0..n-1, n the number of the session's cards.
C13_ResetPutsAllCardsInDeck ==
    [][ResetApplied =>
         \A t \in Sessions :
            /\ \A c \in CardsOf(t) \ TakenNow :
                 /\ in_deck'[c] # None
                 /\ in_hand'[c] = None
                 /\ ~played'[c] /\ ~trump'[c]
                 /\ belongs_to_player'[c] = NoPlayer
            /\ CardsOf(t) \cap TakenNow = {} =>
                 /\ {in_deck'[c] : c \in CardsOf(t)} =
                       0..(Cardinality(CardsOf(t)) - 1)
                 /\ \A c, d \in CardsOf(t) :
                       in_deck'[c] = in_deck'[d] => c = d]_vars

\* A card that the classifier of this frame saw in a hand is back in the
\* deck of its shuffled session, at an index other than the one it was
\* spawned with.
C13_Witness ==
    /\ stage \in {"hand_pos", "frame_end"}
    /\ pending = NoCommands
    /\ \E c \in Cards :
         /\ behaviour[c] = "InHand"
         /\ c[1] \in shuffled
         /\ in_deck[c] # None /\ in_deck[c] # c[2]
         /\ in_hand[c] = None
         /\ belongs_to_player[c] = NoPlayer

\* ---------------------------------------------------------------- C14
\* The sessions that have a deal request in the queue.
Requested == {deal_cards_events[k].session_id : k \in 1..Len(deal_cards_events)}

\* This step leaves the flags, owner, indices and rest marker of card c as
\* they are.
CardUntouched(c) ==
    /\ in_deck'[c] = in_deck[c]
    /\ in_hand'[c] = in_hand[c]
    /\ belongs_to_player'[c] = belongs_to_player[c]
    /\ played'[c] = played[c]
    /\ trump'[c] = trump[c]
    /\ sleeping'[c] = sleeping[c]

\* This step leaves the Dealer marks and NeedsDealer of table t as they are.
TableUntouched(t) ==
    /\ DealersOf(t)' = DealersOf(t)
    /\ (t \in needs_dealer') = (t \in needs_dealer)

\* No two sessions share a card or a player.
SessionsDisjoint ==
    \A t, u \in Sessions :
        t # u => /\ CardsOf(t) \cap CardsOf(u) = {}
                 /\ PlayersOf(t) \cap PlayersOf(u) = {}

\* C14: the card sets and the player sets of different sessions are
\* disjoint; a run of handle_deal_cards_events takes for each request only
\* cards of the request's session and leaves the cards and the table of
\* every session without a request as they are; a run of
\* handle_tables_needing_dealer changes no card, sends each request to
\* players of the request's session only and leaves every table that does
\* not carry NeedsDealer as it is (both when the sync point applies no
\* key-press commands).
C14_SessionsDoNotInterfere ==
    [][/\ SessionsDisjoint /\ SessionsDisjoint'
       /\ (Ran("deal") /\ QuietSync) =>
            /\ \A k \in 1..Len(dealt_log') :
                 \A j \in 1..Len(dealt_log'[k].dealt) :
                    /\ dealt_log'[k].dealt[j].card[1] = dealt_log'[k].session_id
                    /\ dealt_log'[k].dealt[j].player[1] = dealt_log'[k].session_id
            /\ \A t \in Sessions \ Requested :
                 /\ \A c \in CardsOf(t) : CardUntouched(c)
                 /\ TableUntouched(t)
            /\ \A t \in Sessions : TableUntouched(t)
       /\ (Ran("dealer") /\ QuietSync) =>
            /\ \A c \in Cards : CardUntouched(c)
            /\ \A t \in Sessions :
                 /\ \A k \in Sent(t) :
                      Range(deal_cards_events'[k].player_ids) \subseteq PlayersOf(t)
                 /\ t \notin needs_dealer => TableUntouched(t) /\ Sent(t) = {}]_vars

\* The deal requests of this frame were all for one session and dealt a
\* card, while a player of another session holds a card that stayed where
\* it was.
C14_Witness ==
    /\ stage = "classify"
    /\ pending = NoCommands
    /\ \E t, u \in Sessions :
         /\ t # u
         /\ dealt_log # <<>>
         /\ \A k \in 1..Len(dealt_log) :
              dealt_log[k].session_id = t /\ dealt_log[k].dealt # <<>>
         /\ \E c \in CardsOf(u) : in_hand[c] # None
         /\ \E c \in CardsOf(u) : in_deck[c] # None

\* ---------------------------------------------------------------- C15
\* The placement statuses card c has.
Placements(c) ==
    {f \in {"InDeck", "InHand", "Played"} :
        \/ f = "InDeck" /\ in_deck[c] # None
        \/ f = "InHand" /\ in_hand[c] # None
        \/ f = "Played" /\ played[c]}

\* C15: in every reachable state every card of a session's card_ids has
\* exactly one placement status, and every card with InHand has an owner,
\* who is one of the players of the session the card belongs to.
C15_OnePlacementAndOwnerInSession ==
    \A t \in Sessions : \A c \in CardsOf(t) :
        /\ Cardinality(Placements(c)) = 1
        /\ in_hand[c] # None => belongs_to_player[c] \in PlayersOf(t)

\* A table of two or more players, each holding a card and one of them
\* two, with cards left in its deck.
C15_Witness ==
    \E t \in Sessions :
        /\ Len(session[t].player_ids) >= 2
        /\ \A p \in PlayersOf(t) : Hand(p) # {}
        /\ \E p \in PlayersOf(t) : Cardinality(Hand(p)) >= 2
        /\ Deck(t) # {}

\* ---------------------------------------------------------------- C16
\* The chained systems run in their order, one after the other.
StagesInOrder ==
    stage' # stage =>
        stage' = IF stage = "frame_end" THEN Stages[1] ELSE NextStage(stage)

\* The dealing stage reads every request in the queue, those that dealer
\* selection sent in this frame included.
DealReadsTheQueue ==
    Ran("deal") =>
        /\ deal_cards_events' = <<>>
        /\ Len(dealt_log') = Len(deal_cards_events)
        /\ \A k \in 1..Len(deal_cards_events) :
             dealt_log'[k].session_id = deal_cards_events[k].session_id

\* Every card's behaviour is the classifier's result for the flags the
\* card carries now.
BehavioursFresh ==
    \A c \in Cards :
        behaviour[c] = Decide(belongs_to_player[c] # NoPlayer,
                              in_deck[c] # None, in_hand[c] # None,
                              played[c], trump[c])

\* C16: the stages of a frame run in the fixed order dealer selection,
\* dealing, classification, positioning; the requests dealer selection
\* sends are read by the dealing stage of the same frame; and whenever a
\* positioning stage (deck solver, hand solver) runs, every card's
\* behaviour is the classifier's result for the card's current flags.
C16_StagesSeeEachOthersChanges ==
    [][/\ StagesInOrder
       /\ DealReadsTheQueue
       /\ (Ran("deck_pos") \/ Ran("hand_pos")) => BehavioursFresh]_vars

\* ---------------------------------------------------------------- C17
\* This step's sync point applies key-press commands that remove Sleeping
\* from card c (a wake request or a reset).
WokenByKey(c) == pending' = NoCommands /\ c \in DOMAIN pending.sleeping

\* C17: in every step a card that carries Sleeping keeps its pose; the
\* deck solver and the hand solver leave its Sleeping and its TravelTime as
\* they are (when their sync point applies no key-press commands); and
\* Sleeping leaves a card only when a deal request takes the card or the
\* commands of a wake or reset key press are applied.
C17_RestingCardsStayPut ==
    [][\A c \in Cards :
         sleeping[c] =>
            /\ transform_y'[c] = transform_y[c]
            /\ ((Ran("deck_pos") \/ Ran("hand_pos")) /\ QuietSync) =>
                  /\ sleeping'[c]
                  /\ travel_time'[c] = travel_time[c]
            /\ ~sleeping'[c] => c \in TakenNow \/ WokenByKey(c)]_vars

\* The hand solver has run over a hand with a card at rest and a card that
\* was dealt later and is still travelling, and the deck solver over a
\* deck whose cards rest.
C17_Witness ==
    /\ stage = "frame_end"
    /\ \E c, d \in Cards :
         /\ c # d
         /\ in_hand[c] # None /\ in_hand[d] # None
         /\ belongs_to_player[c] = belongs_to_player[d]
         /\ sleeping[c] /\ behaviour[c] = "InHand"
         /\ ~sleeping[d] /\ behaviour[d] = "InHand"
         /\ travel_time[d] # None
    /\ \E c \in Cards :
         in_deck[c] # None /\ sleeping[c] /\ behaviour[c] = "InDeck"

\* ---------------------------------------------------------------- C18
\* The program without deal and reset requests from the keyboard: the
\* chained systems frame after frame, and the wake key.
SelectionNext ==
    \/ handle_spawn_table_events
    \/ handle_spawn_deck_events
    \/ handle_tables_needing_dealer
    \/ handle_deal_cards_events
    \/ determine_card_positioning_behaviours
    \/ handle_cards_positioning_cards_in_deck
    \/ handle_cards_positioning_cards_in_hand
    \/ next_frame
    \/ handle_sleeping_key_press

\* The schedule moves on: the chained system whose turn it is runs, and
\* after the last one the next frame begins (app.run() runs the Update
\* schedule again and again, and no system blocks).
ScheduleMovesOn == stage' \in Range(Stages) \ {stage}

SelectionSpec == Init /\ [][SelectionNext]_vars /\ WF_stage(ScheduleMovesOn)

\* Every table with two or more players has lost NeedsDealer and has one
\* Dealer.
SelectionDone ==
    /\ Len(session) = MaxTables
    /\ \A t \in Sessions :
         Len(session[t].player_ids) >= 2 =>
            /\ t \notin needs_dealer
            /\ Cardinality(DealersOf(t)) = 1

C19_DealerIsTerminal ==
    [][\A t \in Sessions :
         DealersOf(t) # {} =>
           /\ t \notin needs_dealer'
           /\ dealer' \cap PlayersOf(t) = DealersOf(t)
           /\ Cardinality(DealersOf(t)) = 1
           /\ Ran("dealer") => Sent(t) = {}]_vars

\* Dealer selection runs in a frame after a reset: a table has a Dealer,
\* all its cards are back in the deck, and its players hold nothing.
C19_Witness ==
    /\ stage = "dealer"
    /\ \E t \in Sessions \cap shuffled :
         /\ DealersOf(t) # {}
         /\ Len(session[t].player_ids) >= 2
         /\ \A c \in CardsOf(t) : in_deck[c] # None /\ in_hand[c] = None

\* ---------------------------------------------------------------- C20
\* C20: every card that a request read by handle_deal_cards_events deals
\* ends the dealing stage without InDeck, with InHand, owned by the player
\* the request paired it with, and without Sleeping (at a sync that applies
\* no key-press commands).
C20_DealtCardsLandInHands ==
    [][(Ran("deal") /\ QuietSync)
       => \A k \in 1..Len(dealt_log') :
            \A j \in 1..Len(dealt_log'[k].dealt) :
              /\ in_deck'[dealt_log'[k].dealt[j].card] = None
              /\ in_hand'[dealt_log'[k].dealt[j].card] # None
              /\ belongs_to_player'[dealt_log'[k].dealt[j].card]
                    = dealt_log'[k].dealt[j].player
              /\ ~sleeping'[dealt_log'[k].dealt[j].card]]_vars

\* ---------------------------------------------------------------- C21
\* C21: a run of handle_deal_cards_events changes nothing about the cards
\* it does not deal: a card of the deck that no request takes keeps InDeck
\* with the same index_from_bottom (so the remaining cards keep their
\* relative order), and a card in a hand keeps its owner and its
\* index_from_left (at a sync that applies no key-press commands).
C21_DealLeavesOtherCardsAlone ==
    [][(Ran("deal") /\ QuietSync)
       => \A c \in Cards :
            /\ (in_deck[c] # None /\ c \notin TakenNow)
                  => in_deck'[c] = in_deck[c]
            /\ in_hand[c] # None
                  => /\ c \notin TakenNow
                     /\ in_hand'[c] = in_hand[c]
                     /\ belongs_to_player'[c] = belongs_to_player[c]]_vars

\* A request of the deal key was dealt to a table that has its Dealer: its
\* players held cards before, and cards are left in the deck.
C21_Witness ==
    /\ stage = "classify"
    /\ keys_left = 0
    /\ shuffled = {}
    /\ \E t \in Sessions :
         /\ DealersOf(t) # {}
         /\ \E k \in 1..Len(dealt_log) :
              /\ dealt_log[k].session_id = t
              /\ dealt_log[k].dealt # <<>>
         /\ Deck(t) # {}
         /\ \E p \in PlayersOf(t) : Cardinality(Hand(p)) >= 2

\* ---------------------------------------------------------------- C22
\* C22: determine_card_positioning_behaviours writes only the
\* CardPositioningBehaviour of a card: the placement flags, the owner, the
\* indices, the pose, TravelTime and Sleeping are the same before and after
\* the stage, also for a card whose behaviour changes (at a sync that
\* applies no key-press commands).
C22_ClassifierWritesOnlyTheBehaviour ==
    [][(Ran("classify") /\ QuietSync)
       => /\ UNCHANGED <<in_deck, in_hand, belongs_to_player, played, trump>>
          /\ UNCHANGED <<travel_time, sleeping, transform_y>>]_vars

\* The classifier has just turned a card from InDeck to InHand while it
\* was travelling: the card was dealt in this frame and its TravelTime is
\* older than the frame.
C22_Witness ==
    /\ stage = "deck_pos"
    /\ keys_left = MaxKeyPresses
    /\ \E k \in 1..Len(dealt_log) :
         \E j \in 1..Len(dealt_log[k].dealt) :
            /\ behaviour[dealt_log[k].dealt[j].card] = "InHand"
            /\ travel_time[dealt_log[k].dealt[j].card] # None
            /\ travel_time[dealt_log[k].dealt[j].card] >= 1

\* ---------------------------------------------------------------- C23
\* One card per suit and rank of the deck, and no other.
FullDeck(cs) ==
    /\ Cardinality(cs) = DeckSize
    /\ {Card(c) : c \in cs} =
          {[suit |-> AllSuits[i], rank |-> AllRanks[j]] :
              i \in 1..NumSuits, j \in 1..NumRanks}

\* C23: the step that spawns a session's deck gives the session one card
\* per suit and rank, with the InDeck indices 0..DeckSize-1; from then on
\* every step (dealer selection, deals, resets, wakes) leaves the session
\* with the same set of cards, and every one of them is still an entity.
C23_CardSetIsFixed ==
    [][\A t \in Sessions :
         IF session[t].card_ids = <<>>
         THEN session'[t].card_ids # <<>>
                 => /\ FullDeck(Range(session'[t].card_ids))
                    /\ {in_deck'[c] : c \in Range(session'[t].card_ids)}
                          = 0..(DeckSize - 1)
         ELSE /\ Range(session'[t].card_ids) = CardsOf(t)
              /\ FullDeck(CardsOf(t))
              /\ CardsOf(t) \subseteq DOMAIN in_deck']_vars

\* After a reset and with a Dealer at the table, cards of the session are
\* in hands and in the deck.
C23_Witness ==
    \E t \in Sessions \cap shuffled :
        /\ DealersOf(t) # {}
        /\ FullDeck(CardsOf(t))
        /\ \E c \in CardsOf(t) : in_hand[c] # None
        /\ \E c \in CardsOf(t) : in_deck[c] # None

\* ---------------------------------------------------------------- C24
\* handle_tables_needing_dealer gets to max_value for table t: the table
\* carries NeedsDealer, has two or more players, and no_cards_in_hand is
\* empty.
ScoresCompared(t) ==
    /\ t \in needs_dealer
    /\ Len(session[t].player_ids) >= 2
    /\ no_cards_in_hand(t) = <<>>

\* C24: whenever dealer selection computes the maximum score of a session,
\* every player of the session holds at least one card of the session in
\* hand, so player_values is not empty (the expect of max_value holds) and
\* players_with_max_value is not empty (the assert holds), also when the
\* deck is exhausted.
C24_ScoresAlwaysHavePlayers ==
    stage = "dealer" =>
       \A t \in Sessions :
          ScoresCompared(t) =>
             /\ \A p \in PlayersOf(t) : Hand(p) \cap CardsOf(t) # {}
             /\ DOMAIN player_values(t) # {}
             /\ \A h \in HashOrders : players_with_max_value(t, h) # <<>>

\* Dealer selection compares the scores of a table whose deck is
\* exhausted.
C24_Witness ==
    /\ stage = "dealer"
    /\ \E t \in Sessions :
         /\ ScoresCompared(t)
         /\ Deck(t) = {}

\* ---------------------------------------------------------------- C25
\* C25: a card that carries TravelTime when its placement changes (a
\* request of the dealing stage takes it from the deck, or the commands of
\* a reset move it from a hand back to the deck) has lost that TravelTime
\* after the step, so that the solver of its new place starts from
\* progress 0.
C25_PlacementChangeRestartsTravel ==
    [][\A c \in Cards :
         travel_time[c] # None =>
           /\ (Ran("deal") /\ QuietSync /\ c \in TakenNow)
                 => travel_time'[c] = None
           /\ (ResetApplied /\ in_hand[c] # None /\ in_deck'[c] # None)
                 => travel_time'[c] = None]_vars

\* ---------------------------------------------------------------- C26
\* C26: after every step no card carries both TravelTime and Sleeping; a
\* TravelTime is only created on a card without Sleeping; and in a step of
\* a solver (at a sync that applies no key-press commands) a card loses its
\* TravelTime exactly when it gets Sleeping, which is when its progress has
\* reached RestPct.
C26_NeverTravellingAndResting ==
    [][\A c \in Cards :
         /\ ~(travel_time'[c] # None /\ sleeping'[c])
         /\ (travel_time[c] = None /\ travel_time'[c] # None) => ~sleeping[c]
         /\ ((Ran("deck_pos") \/ Ran("hand_pos")) /\ QuietSync)
               => /\ (travel_time[c] # None /\ travel_time'[c] = None)
                       => sleeping'[c] /\ Progress(travel_time[c]) >= RestPct
                  /\ (~sleeping[c] /\ sleeping'[c])
                       => travel_time'[c] = None
                          /\ Progress(Elapsed(c)) >= RestPct]_vars

\* A card has come to rest in a hand while another card is travelling.
C26_Witness ==
    /\ \E c \in Cards :
         sleeping[c] /\ in_hand[c] # None /\ travel_time[c] = None
    /\ \E c \in Cards : ~sleeping[c] /\ travel_time[c] # None

\* ---------------------------------------------------------------- C27
\* The target the deck solver is to give card c: the table surface for the
\* card with the lowest index_from_bottom of the session's deck, and for
\* every other card the bottom card's translation as it is, raised by the
\* card's own index times the stack step.
BottomCard(t) ==
    CHOOSE b \in Deck(t) : \A d \in Deck(t) : in_deck[b] <= in_deck[d]

DeckTarget(c) ==
    IF c = BottomCard(c[1]) THEN SurfaceY
    ELSE transform_y[BottomCard(c[1])] + in_deck[c] * StackStep

\* C27: whenever the deck solver runs (with the behaviours the classifier
\* gave for the current flags, and no key-press commands at its sync), it
\* moves every card of a deck that does not rest toward DeckTarget, also
\* after deals that follow a reset.
C27_BottomCardLiesOnTheTable ==
    [][(Ran("deck_pos") /\ QuietSync /\ BehavioursFresh)
       => \A c \in Cards :
            (in_deck[c] # None /\ ~sleeping[c])
               => transform_y'[c] =
                     Lerp(transform_y[c], DeckTarget(c), Progress(Elapsed(c)))]_vars

\* ---------------------------------------------------------------- C28
Abs(x) == IF x < 0 THEN 0 - x ELSE x

\* The desired_pos the solvers compute for card c in this tick.
DeckSolverTarget(c) ==
    DeckDesired(in_deck[c], transform_y[cards_in_deck(c[1])[1]])

HandSolverTarget(c) ==
    HandDesired(in_hand[c],
                transform_y[cards_in_hand(c[1], belongs_to_player[c])[1]])

\* What a solver's tick does to a card c that is classified for it and
\* does not rest, given the target of this tick: the card is not farther
\* from the target than before; after a second of travel it gets Sleeping;
\* before that it carries a TravelTime (created now if it had none).
TickConverges(c, target) ==
    /\ Abs(target - transform_y'[c]) <= Abs(target - transform_y[c])
    /\ Elapsed(c) >= TicksPerSecond => sleeping'[c]
    /\ Elapsed(c) < TicksPerSecond => travel_time'[c] = Elapsed(c)

\* C28: ticks have a positive duration, so from one frame to the next a
\* TravelTime gets older until it is a second old; and in every tick of a
\* solver without placement change or wake (the behaviours are the
\* classifier's for the current flags, no key-press commands at the sync)
\* every card classified InDeck or InHand that does not rest moves no
\* farther from its target and gets Sleeping once its TravelTime is a
\* second old: it rests within TicksPerSecond ticks of the marker's
\* creation.
C28_TravelEndsWithinASecond ==
    [][/\ (stage = "frame_end" /\ stage' = Stages[1])
            => \A c \in Cards :
                 travel_time[c] # None
                    => /\ travel_time'[c] # None
                       /\ \/ travel_time'[c] > travel_time[c]
                          \/ travel_time'[c] = TicksPerSecond
       /\ (Ran("deck_pos") /\ QuietSync /\ BehavioursFresh)
            => \A c \in Cards :
                 (behaviour[c] = "InDeck" /\ ~sleeping[c])
                    => TickConverges(c, DeckSolverTarget(c))
       /\ (Ran("hand_pos") /\ QuietSync /\ BehavioursFresh)
            => \A c \in Cards :
                 (behaviour[c] = "InHand" /\ ~sleeping[c])
                    => TickConverges(c, HandSolverTarget(c))]_vars

\* Without any key press a card has come to rest in front of its player
\* and the bottom card of a deck rests on the table.
C28_Witness ==
    /\ keys_left = MaxKeyPresses
    /\ \E c \in Cards :
         sleeping[c] /\ in_hand[c] = 0 /\ transform_y[c] = PlayerY
    /\ \E c \in Cards :
         sleeping[c] /\ in_deck[c] = 0 /\ transform_y[c] = SurfaceY

\* ---------------------------------------------------------------- C29
\* The requests for session t in the queue the dealing stage reads.
RequestsFor(t) ==
    {k \in 1..Len(deal_cards_events) : deal_cards_events[k].session_id = t}

\* How many times the requests ks of the queue name player p.
RECURSIVE TimesTargeted(_, _)
TimesTargeted(ks, p) ==
    IF ks = {} THEN 0
    ELSE Cardinality({j \in 1..Len(deal_cards_events[CHOOSE k \in ks : TRUE].player_ids) :
            deal_cards_events[CHOOSE k \in ks : TRUE].player_ids[j] = p})
         + TimesTargeted(ks \ {CHOOSE k \in ks : TRUE}, p)

RECURSIVE TotalTargets(_)
TotalTargets(ks) ==
    IF ks = {} THEN 0
    ELSE Len(deal_cards_events[CHOOSE k \in ks : TRUE].player_ids)
         + TotalTargets(ks \ {CHOOSE k \in ks : TRUE})

\* C29: when the dealing stage reads two or more requests for one session
\* in the same tick (at a sync that applies no key-press commands), no card
\* is dealt to two targets, and with at least as many cards in the deck as
\* targets the deck loses one card per target and every hand grows by one
\* card per time its player was targeted.
C29_SameTickRequestsDealDistinctCards ==
    [][(Ran("deal") /\ QuietSync)
       => \A t \in Sessions :
            Cardinality(RequestsFor(t)) >= 2
               => /\ \A k1, k2 \in LoggedFor(t) :
                       \A j1 \in 1..Len(dealt_log'[k1].dealt) :
                          \A j2 \in 1..Len(dealt_log'[k2].dealt) :
                             dealt_log'[k1].dealt[j1].card
                                   = dealt_log'[k2].dealt[j2].card
                                => (k1 = k2 /\ j1 = j2)
                  /\ Cardinality(Deck(t)) >= TotalTargets(RequestsFor(t))
                       => /\ Cardinality({c \in CardsOf(t) : in_deck'[c] # None})
                               = Cardinality(Deck(t)) - TotalTargets(RequestsFor(t))
                          /\ \A p \in PlayersOf(t) :
                               Cardinality({c \in Cards : in_hand'[c] # None
                                               /\ belongs_to_player'[c] = p})
                                  = Cardinality(Hand(p))
                                    + TimesTargeted(RequestsFor(t), p)]_vars

\* ---------------------------------------------------------------- C30
\* C30: without deal and reset requests from outside, a player whose score
\* is strictly below the maximum of the table is strictly below it after
\* every step and is not marked Dealer by it: only the players at the
\* maximum get further cards, so the Dealer was at the maximum at every
\* evaluation of the scores.
C30_LosersNeverBecomeDealer ==
    [][\A t \in Sessions :
         \A p \in PlayersOf(t) :
            p \notin AtMax(t)
               => /\ \E q \in PlayersOf(t) : Score(q)' > Score(p)'
                  /\ p \notin dealer']_vars

\* A player who was tied at the maximum in the first draw lost the second
\* draw: the table has its Dealer, and a player below the maximum holds two
\* cards.
C30_Witness ==
    \E t \in Sessions :
        /\ DealersOf(t) # {}
        /\ DealersOf(t) \subseteq AtMax(t)
        /\ \E p \in PlayersOf(t) \ AtMax(t) : Cardinality(Hand(p)) = 2

\* ---------------------------------------------------------------- C31
\* Card::get_new_deck with all its suits and ranks: position i + 1 holds
\* the card spawned with index_from_bottom i.
full_deck ==
    [i \in 1..(Len(AllSuits) * Len(AllRanks)) |->
        [suit |-> AllSuits[((i - 1) \div Len(AllRanks)) + 1],
         rank |-> AllRanks[((i - 1) % Len(AllRanks)) + 1]]]

\* The n cards on top of the unshuffled deck have pairwise different
\* ranks.
TopRanksDistinct(deck, n) ==
    \A i, j \in 1..n :
        i # j => deck[Len(deck) - i + 1].rank # deck[Len(deck) - j + 1].rank

\* The program's deck: index 51 is the King of Clubs, index 39 the Ace of
\* Clubs, the top n cards differ in rank for every n from 2 to 13, and
\* different ranks have different values.
FullDeckFirstDraw ==
    /\ full_deck[52] = [suit |-> "Clubs", rank |-> "King"]
    /\ full_deck[40] = [suit |-> "Clubs", rank |-> "Ace"]
    /\ \A n \in 2..13 : TopRanksDistinct(full_deck, n)
    /\ \A r1, r2 \in Range(AllRanks) :
          r1 # r2 => RankValue(r1) # RankValue(r2)

\* Table t has two or more players and the first draw from its fresh deck
\* gives them cards of pairwise different ranks.
FirstDrawDecides(t) ==
    /\ Len(session[t].player_ids) >= 2
    /\ TopRanksDistinct(get_new_deck, Len(session[t].player_ids))

\* C31: without deal and reset requests from outside, at a table whose
\* first draw gives cards of pairwise different ranks (in the program:
\* every table of 2 to 13 players, FullDeckFirstDraw), dealer selection
\* with all hands empty sends one request to all players, the dealing
\* stage of that tick gives each of them exactly one card, dealer
\* selection of the next tick marks a Dealer and removes NeedsDealer
\* without sending a request, and no player ever holds more than one card.
C31_FirstDrawNeverTies ==
    [][/\ FullDeckFirstDraw
       /\ \A t \in Sessions :
            FirstDrawDecides(t) =>
              /\ \A p \in PlayersOf(t) : Cardinality(Hand(p)') <= 1
              /\ Selecting(t) =>
                   \/ /\ EmptyHanded(t) = PlayersOf(t)
                      /\ SentOneTo(t, PlayersOf(t))
                      /\ NoNewDealer(t)
                   \/ /\ EmptyHanded(t) = {}
                      /\ Sent(t) = {}
                      /\ t \notin needs_dealer'
                      /\ Cardinality(dealer' \cap PlayersOf(t)) = 1
              /\ (Ran("deal") /\ RequestsFor(t) # {})
                   => \A p \in PlayersOf(t) : Cardinality(Hand(p)') = 1]_vars

\* Dealer selection is over at a table of two after one draw: the table
\* has its Dealer and no NeedsDealer, each player holds one card, and the
\* rest of the deck was never touched.
C31_Witness ==
    \E t \in Sessions :
        /\ FirstDrawDecides(t)
        /\ t \notin needs_dealer
        /\ Cardinality(DealersOf(t)) = 1
        /\ \A p \in PlayersOf(t) : Cardinality(Hand(p)) = 1
        /\ Cardinality(Deck(t)) = DeckSize - Len(session[t].player_ids)

====
